---- MODULE Spec2Model ----
(***************************************************************************)
(* Zobo ESP32 robot controller (zobo_esp32/main/main.c): the BLE GATT      *)
(* event handler, the command dispatcher, the motor outputs with the       *)
(* forward ramp, and the inactivity timeout of the control loop task.      *)
(*                                                                         *)
(* Program positions are named after the source line of main.c whose       *)
(* statement is executed next ("L351" is main.c:351).  Every statement is  *)
(* one step of a step function over a configuration [m, l]: m is the       *)
(* memory shared by the two execution contexts (the statics of main.c,     *)
(* the LEDC duties and direction levels, the age of the ramp), l the       *)
(* locals of the context.  Spec runs each handler and each loop iteration  *)
(* to completion in one action; SpecInterleaved takes the handler, and a   *)
(* bounded number of loop iterations, statement by statement.              *)
(*                                                                         *)
(* SpecWifi is the WiFi manager (wifi_manager.c) with the events of the    *)
(* WiFi driver; SpecOta is the OTA manager (ota_manager.c) with its        *)
(* calling tasks and the OTA tasks they create, statement by statement.    *)
(***************************************************************************)
EXTENDS Integers, Sequences, FiniteSets, TLC

\* ------------------------------------------------------------ constants
RAMP_START_PWM == 100
RAMP_END_PWM == 255
RAMP_DURATION_MS == 2000
LOOP_DELAY_MS == 10
INACTIVITY_MS == 300
INACTIVITY_TICKS == INACTIVITY_MS \div LOOP_DELAY_MS

\* widths of uint8_t (motor_set_pwm arguments) and uint16_t (pwm_now)
U8 == 256
U16 == 65536

ESP_GATT_IF_NONE == "ESP_GATT_IF_NONE"
GATTS_IF == "gatts_if"
NoFrame == "none"
NoLog == "none"
REPLY == "6.25"

\* ------------------------------------------------------------ inputs
\* command frames written to the RX characteristic
Opcodes == {0, 1, 2, 3, 4, 5, 10, 20, 30, 40, 112, 153, 255}
Params == {0, 50, 80, 255}
Frames == {<<>>} \cup {<<c>> : c \in Opcodes} \cup {<<5, p>> : p \in Params}
\* values written to the TX CCCD descriptor (little endian)
CccdWrites == {<<1, 0>>, <<0, 0>>, <<2, 0>>, <<1>>, <<1, 0, 0>>}

VARIABLES
    gatts_if_global, device_connected, tx_notify_enabled, advertising,
    ramp_forward_active, forward_latched,
    ramp_age_ms,            \* tick clock minus ramp_start_ms, see below
    inactivity_timer, timer_active,
    pwm_left, pwm_right,    \* LEDC duties
    dir_left, dir_right,    \* GPIO levels of the direction pins
    send_arg,               \* string passed to ble_send_data by the last step
    radio_out,              \* frame handed to esp_ble_gatts_send_indicate by it
    log_out,                \* warning it logged (ESP_LOGW)
    cb,                     \* locals of the GATT callback context
    tk,                     \* locals of control_loop_task
    wd,                     \* observer of the inactivity timeout (Spec)
    race,                   \* observer of the two contexts (SpecInterleaved)
    n_events,               \* GATT events dispatched (SpecInterleaved)
    wifi,                   \* wifi_manager.c: statics, station, calling task
    ota                     \* ota_manager.c: s_ota_in_progress, callers, tasks

shared == <<gatts_if_global, device_connected, tx_notify_enabled,
            advertising, ramp_forward_active, forward_latched, ramp_age_ms,
            inactivity_timer, timer_active, pwm_left, pwm_right, dir_left,
            dir_right, send_arg, radio_out, log_out>>
vars == <<shared, cb, tk, wd, race, n_events, wifi, ota>>

\* the shared memory as one record, and its write-back
Cur ==
    [gatts_if_global |-> gatts_if_global,
     device_connected |-> device_connected,
     tx_notify_enabled |-> tx_notify_enabled, advertising |-> advertising,
     ramp_forward_active |-> ramp_forward_active,
     forward_latched |-> forward_latched, ramp_age_ms |-> ramp_age_ms,
     inactivity_timer |-> inactivity_timer, timer_active |-> timer_active,
     pwm_left |-> pwm_left, pwm_right |-> pwm_right,
     dir_left |-> dir_left, dir_right |-> dir_right,
     send_arg |-> send_arg, radio_out |-> radio_out, log_out |-> log_out]

Apply(m) ==
    /\ gatts_if_global' = m.gatts_if_global
    /\ device_connected' = m.device_connected
    /\ tx_notify_enabled' = m.tx_notify_enabled
    /\ advertising' = m.advertising
    /\ ramp_forward_active' = m.ramp_forward_active
    /\ forward_latched' = m.forward_latched
    /\ ramp_age_ms' = m.ramp_age_ms
    /\ inactivity_timer' = m.inactivity_timer
    /\ timer_active' = m.timer_active
    /\ pwm_left' = m.pwm_left
    /\ pwm_right' = m.pwm_right
    /\ dir_left' = m.dir_left
    /\ dir_right' = m.dir_right
    /\ send_arg' = m.send_arg
    /\ radio_out' = m.radio_out
    /\ log_out' = m.log_out

\* ------------------------------------------------------------ helpers
Goto(c, pc) == [c EXCEPT !.l.pc = pc]
Store(c, f, v, pc) == [c EXCEPT !.m[f] = v, !.l.pc = pc]
WithMem(c, m, pc) == [c EXCEPT !.m = m, !.l.pc = pc]

\* a warning that is also sent to the client
Warn_SendsError(c, msg) == [c EXCEPT !.m.log_out = msg, !.m.send_arg = msg]

\* ESP_LOGW; the informational ESP_LOGI lines are not modelled
Warn(c, msg) == [c EXCEPT !.m.log_out = msg]

\* ------------------------------------------------------------ motor outputs
\* a duty update that drives the left channel only
motor_set_pwm_LeftOnly(m, left, right) == [m EXCEPT !.pwm_left = left % U8]

\* the uint8_t parameters truncate the int arguments
motor_set_pwm(m, left, right) ==
    [m EXCEPT !.pwm_left = left % U8, !.pwm_right = right % U8]

\* direction pins driven with the opposite level
motor_set_direction_Inverted(m, left_high, right_high) ==
    [m EXCEPT !.dir_left = ~left_high, !.dir_right = ~right_high]

motor_set_direction(m, left_high, right_high) ==
    [m EXCEPT !.dir_left = left_high, !.dir_right = right_high]

\* motor_stop that also disarms the inactivity timer
motor_stop_Disarms(c) ==
    CASE c.l.pc = "L254" -> WithMem(c, motor_set_pwm(c.m, 0, 0), "L255")
      [] c.l.pc = "L255" -> WithMem(c, motor_set_direction(c.m, FALSE, FALSE), "L256")
      [] c.l.pc = "L256" -> Store(c, "ramp_forward_active", FALSE, "L257")
      [] c.l.pc = "L257" -> [c EXCEPT !.m.forward_latched = FALSE,
                                      !.m.timer_active = FALSE, !.l.pc = c.l.ret]

\* motor_stop that leaves the direction pins as they are
motor_stop_KeepsDirection(c) ==
    CASE c.l.pc = "L254" -> WithMem(c, motor_set_pwm(c.m, 0, 0), "L255")
      [] c.l.pc = "L255" -> Goto(c, "L256")
      [] c.l.pc = "L256" -> Store(c, "ramp_forward_active", FALSE, "L257")
      [] c.l.pc = "L257" -> Store(c, "forward_latched", FALSE, c.l.ret)

\* motor_stop that forgets to zero the duties
motor_stop_KeepsDuty(c) ==
    CASE c.l.pc = "L254" -> Goto(c, "L255")
      [] c.l.pc = "L255" -> WithMem(c, motor_set_direction(c.m, FALSE, FALSE), "L256")
      [] c.l.pc = "L256" -> Store(c, "ramp_forward_active", FALSE, "L257")
      [] c.l.pc = "L257" -> Store(c, "forward_latched", FALSE, c.l.ret)

\* motor_stop, statement by statement; returns to c.l.ret
motor_stop(c) ==
    CASE c.l.pc = "L254" -> WithMem(c, motor_set_pwm(c.m, 0, 0), "L255")
      [] c.l.pc = "L255" -> WithMem(c, motor_set_direction(c.m, FALSE, FALSE), "L256")
      [] c.l.pc = "L256" -> Store(c, "ramp_forward_active", FALSE, "L257")
      [] c.l.pc = "L257" -> Store(c, "forward_latched", FALSE, c.l.ret)

\* ------------------------------------------------------------ BLE send
\* a send that stops the motors when the frame cannot go out
ble_send_data_StopsWhenMuted(m, str) ==
    IF m.device_connected /\ m.tx_notify_enabled /\ m.gatts_if_global # ESP_GATT_IF_NONE
    THEN [m EXCEPT !.send_arg = str, !.radio_out = str]
    ELSE [m EXCEPT !.send_arg = str, !.pwm_left = 0, !.pwm_right = 0]

\* ble_send_data that does not look at the subscription
ble_send_data_NoNotifyGate(m, str) ==
    IF m.device_connected /\ m.gatts_if_global # ESP_GATT_IF_NONE
    THEN [m EXCEPT !.send_arg = str, !.radio_out = str]
    ELSE [m EXCEPT !.send_arg = str]

ble_send_data(m, str) ==
    IF m.device_connected /\ m.tx_notify_enabled /\ m.gatts_if_global # ESP_GATT_IF_NONE
    THEN [m EXCEPT !.send_arg = str, !.radio_out = str]
    ELSE [m EXCEPT !.send_arg = str]

\* ------------------------------------------------------------ dispatcher
\* a start test that always finds the ramp idle
RampIdle_Always(m) == TRUE

\* a start test that forgets the latch
RampIdle_IgnoresLatch(m) == ~m.ramp_forward_active

\* the test of main.c:365
RampIdle(m) == ~m.ramp_forward_active /\ ~m.forward_latched

\* a switch whose default falls into the stop case
SwitchTarget_DefaultStops(cmd) ==
    CASE cmd = 0 -> "L351"
      [] cmd = 1 -> "L361"
      [] cmd = 2 -> "L374"
      [] cmd = 3 -> "L384"
      [] cmd = 4 -> "L394"
      [] cmd = 5 -> "L404"
      [] cmd = 10 -> "L419"
      [] cmd = 20 -> "L424"
      [] cmd = 30 -> "L429"
      [] cmd = 40 -> "L434"
      [] OTHER -> "L374"

\* a switch whose left-turn opcode runs the right-turn case
SwitchTarget_LeftIsRight(cmd) ==
    CASE cmd = 0 -> "L351"
      [] cmd = 1 -> "L361"
      [] cmd = 2 -> "L374"
      [] cmd = 3 -> "L384"
      [] cmd = 4 -> "L384"
      [] cmd = 5 -> "L404"
      [] cmd = 10 -> "L419"
      [] cmd = 20 -> "L424"
      [] cmd = 30 -> "L429"
      [] cmd = 40 -> "L434"
      [] OTHER -> "L439"

\* the switch of main.c:349
SwitchTarget(cmd) ==
    CASE cmd = 0 -> "L351"
      [] cmd = 1 -> "L361"
      [] cmd = 2 -> "L374"
      [] cmd = 3 -> "L384"
      [] cmd = 4 -> "L394"
      [] cmd = 5 -> "L404"
      [] cmd = 10 -> "L419"
      [] cmd = 20 -> "L424"
      [] cmd = 30 -> "L429"
      [] cmd = 40 -> "L434"
      [] OTHER -> "L439"

ProcessCommandPcs ==
    {"L342", "L351", "L352", "L353", "L354", "L355", "L356",
     "L361", "L362", "L363", "L365", "L366", "L367", "L368",
     "L374", "L375", "L376", "L378",
     "L384", "L385", "L386", "L387", "L388", "L389",
     "L394", "L395", "L396", "L397", "L398", "L399",
     "L404", "L405", "L406", "L407", "L409", "L414",
     "L419", "L424", "L429", "L434", "L439"}

MotorStopPcs == {"L254", "L255", "L256", "L257"}

\* process_command(data, len): data is c.l.data, len its length; returns to "L513"
process_command(c) ==
    LET data == c.l.data
        len == Len(data)
        param == IF len > 1 THEN data[2] ELSE 0
        pc == c.l.pc
        m == c.m
    IN
    CASE pc = "L342" -> IF len < 1 THEN Goto(c, "L513") ELSE Goto(c, SwitchTarget(data[1]))
      \* case 0x00: backward
      [] pc = "L351" -> Store(c, "forward_latched", FALSE, "L352")
      [] pc = "L352" -> Store(c, "ramp_forward_active", FALSE, "L353")
      [] pc = "L353" -> Store(c, "timer_active", TRUE, "L354")
      [] pc = "L354" -> Store(c, "inactivity_timer", INACTIVITY_TICKS, "L355")
      [] pc = "L355" -> WithMem(c, motor_set_pwm(m, 100, 100), "L356")
      [] pc = "L356" -> WithMem(c, motor_set_direction(m, TRUE, TRUE), "L513")
      \* case 0x01: forward with ramp
      [] pc = "L361" -> Store(c, "timer_active", TRUE, "L362")
      [] pc = "L362" -> Store(c, "inactivity_timer", INACTIVITY_TICKS, "L363")
      [] pc = "L363" -> WithMem(c, motor_set_direction(m, FALSE, FALSE), "L365")
      [] pc = "L365" -> IF RampIdle(m)
                        THEN Goto(c, "L366") ELSE Goto(c, "L513")
      [] pc = "L366" -> Store(c, "ramp_age_ms", 0, "L367")
      [] pc = "L367" -> Store(c, "ramp_forward_active", TRUE, "L368")
      [] pc = "L368" -> WithMem(c, motor_set_pwm(m, RAMP_START_PWM, RAMP_START_PWM), "L513")
      \* case 0x02: stop
      [] pc = "L374" -> Store(c, "forward_latched", FALSE, "L375")
      [] pc = "L375" -> Store(c, "ramp_forward_active", FALSE, "L376")
      [] pc = "L376" -> [c EXCEPT !.l.pc = "L254", !.l.ret = "L378"]
      [] pc = "L378" -> Goto(c, "L513")      \* vTaskDelay(20 ms): the callback yields
      \* case 0x03: right
      [] pc = "L384" -> Store(c, "forward_latched", FALSE, "L385")
      [] pc = "L385" -> Store(c, "ramp_forward_active", FALSE, "L386")
      [] pc = "L386" -> Store(c, "timer_active", TRUE, "L387")
      [] pc = "L387" -> Store(c, "inactivity_timer", INACTIVITY_TICKS, "L388")
      [] pc = "L388" -> WithMem(c, motor_set_pwm(m, 150, 255 - 150), "L389")
      [] pc = "L389" -> WithMem(c, motor_set_direction(m, TRUE, FALSE), "L513")
      \* case 0x04: left
      [] pc = "L394" -> Store(c, "forward_latched", FALSE, "L395")
      [] pc = "L395" -> Store(c, "ramp_forward_active", FALSE, "L396")
      [] pc = "L396" -> Store(c, "timer_active", TRUE, "L397")
      [] pc = "L397" -> Store(c, "inactivity_timer", INACTIVITY_TICKS, "L398")
      [] pc = "L398" -> WithMem(c, motor_set_pwm(m, 255 - 150, 150), "L399")
      [] pc = "L399" -> WithMem(c, motor_set_direction(m, FALSE, TRUE), "L513")
      \* case 0x05: manual PWM
      [] pc = "L404" -> Store(c, "forward_latched", FALSE, "L405")
      [] pc = "L405" -> Store(c, "ramp_forward_active", FALSE, "L406")
      [] pc = "L406" -> Store(c, "timer_active", TRUE, "L407")
      [] pc = "L407" -> Store(c, "inactivity_timer", INACTIVITY_TICKS, "L409")
      [] pc = "L409" -> IF param >= 50
                        THEN WithMem(c, motor_set_pwm(m, 180 - (param - 50), 180 + (param - 50)), "L414")
                        ELSE WithMem(c, motor_set_pwm(m, 180 + (50 - param), 180 - (50 - param)), "L414")
      [] pc = "L414" -> WithMem(c, motor_set_direction(m, FALSE, FALSE), "L513")
      \* cases 10, 20, 30, 40: led_set_rgb drives the LED pins only, which
      \* are not part of the model
      [] pc \in {"L419", "L424", "L429", "L434"} -> Goto(c, "L513")
      \* default: ESP_LOGW only
      [] pc = "L439" -> Warn(Goto(c, "L513"), "Unknown command")

\* motor_start_ramp of motor.c:112-121, the motor module's form of lines
\* 365-369 of main.c, as one call
motor_start_ramp(m) ==
    IF RampIdle(m)
    THEN motor_set_direction(
             motor_set_pwm([m EXCEPT !.ramp_age_ms = 0, !.ramp_forward_active = TRUE],
                           RAMP_START_PWM, RAMP_START_PWM),
             FALSE, FALSE)
    ELSE m

\* ------------------------------------------------------------ GATT events
\* the position at which gatts_event_handler starts for an event
EventEntry(ev) ==
    CASE ev = "REG" -> "L476"
      [] ev = "CONNECT" -> "L497"
      [] ev = "DISCONNECT" -> "L503"
      [] ev = "WRITE_RX" -> "L342"
      [] ev = "WRITE_CCCD" -> "L522"

\* a handler whose disconnect leaves the notification flag as it was
gatts_event_handler_KeepsNotify(c) ==
    LET pc == c.l.pc
        m == c.m
        data == c.l.data
    IN
    CASE pc \in ProcessCommandPcs -> process_command(c)
      [] pc \in MotorStopPcs -> motor_stop(c)
      [] pc = "L476" -> Store(c, "gatts_if_global", GATTS_IF, "L479")
      [] pc = "L479" -> Store(c, "advertising", TRUE, "idle")
      [] pc = "L497" -> Store(c, "device_connected", TRUE, "idle")
      [] pc = "L503" -> Store(c, "device_connected", FALSE, "L504")
      [] pc = "L504" -> Goto(c, "L505")
      [] pc = "L505" -> [c EXCEPT !.l.pc = "L254", !.l.ret = "L506"]
      [] pc = "L506" -> Store(c, "advertising", TRUE, "idle")
      [] pc = "L513" -> WithMem(c, ble_send_data(m, REPLY), "idle")
      [] pc = "L522" -> IF Len(data) = 2 THEN Goto(c, "L524") ELSE Goto(c, "idle")
      [] pc = "L524" -> Store(c, "tx_notify_enabled", (data[1] + data[2] * 256) = 1, "idle")

\* a handler that does not restart advertising after a disconnect
gatts_event_handler_NoReadvertise(c) ==
    LET pc == c.l.pc
        m == c.m
        data == c.l.data
    IN
    CASE pc \in ProcessCommandPcs -> process_command(c)
      [] pc \in MotorStopPcs -> motor_stop(c)
      [] pc = "L476" -> Store(c, "gatts_if_global", GATTS_IF, "L479")
      [] pc = "L479" -> Store(c, "advertising", TRUE, "idle")
      [] pc = "L497" -> Store(c, "device_connected", TRUE, "idle")
      [] pc = "L503" -> Store(c, "device_connected", FALSE, "L504")
      [] pc = "L504" -> Store(c, "tx_notify_enabled", FALSE, "L505")
      [] pc = "L505" -> [c EXCEPT !.l.pc = "L254", !.l.ret = "L506"]
      [] pc = "L506" -> Goto(c, "idle")
      [] pc = "L513" -> WithMem(c, ble_send_data(m, REPLY), "idle")
      [] pc = "L522" -> IF Len(data) = 2 THEN Goto(c, "L524") ELSE Goto(c, "idle")
      [] pc = "L524" -> Store(c, "tx_notify_enabled", (data[1] + data[2] * 256) = 1, "idle")

\* one statement of gatts_event_handler (and of what it calls)
gatts_event_handler(c) ==
    LET pc == c.l.pc
        m == c.m
        data == c.l.data
    IN
    CASE pc \in ProcessCommandPcs -> process_command(c)
      [] pc \in MotorStopPcs -> motor_stop(c)
      \* ESP_GATTS_REG_EVT; the raw advertising data completes in
      \* gap_event_handler, which starts advertising
      [] pc = "L476" -> Store(c, "gatts_if_global", GATTS_IF, "L479")
      [] pc = "L479" -> Store(c, "advertising", TRUE, "idle")
      \* ESP_GATTS_CONNECT_EVT
      [] pc = "L497" -> Store(c, "device_connected", TRUE, "idle")
      \* ESP_GATTS_DISCONNECT_EVT
      [] pc = "L503" -> Store(c, "device_connected", FALSE, "L504")
      [] pc = "L504" -> Store(c, "tx_notify_enabled", FALSE, "L505")
      [] pc = "L505" -> [c EXCEPT !.l.pc = "L254", !.l.ret = "L506"]
      [] pc = "L506" -> Store(c, "advertising", TRUE, "idle")
      \* ESP_GATTS_WRITE_EVT on the RX characteristic, after process_command
      [] pc = "L513" -> WithMem(c, ble_send_data(m, REPLY), "idle")
      \* ESP_GATTS_WRITE_EVT on the TX CCCD
      [] pc = "L522" -> IF Len(data) = 2 THEN Goto(c, "L524") ELSE Goto(c, "idle")
      [] pc = "L524" -> Store(c, "tx_notify_enabled", (data[1] + data[2] * 256) = 1, "idle")

\* ------------------------------------------------------------ time
\* The tick clock (xTaskGetTickCount() * portTICK_PERIOD_MS) is read at two
\* places only: main.c:366 stores it in ramp_start_ms and main.c:585-586
\* subtract ramp_start_ms from it.  The model keeps their difference,
\* ramp_age_ms: 366 sets it to 0 and the delay of the control loop adds
\* LOOP_DELAY_MS.  The code only asks whether the difference has reached
\* RAMP_DURATION_MS and uses its value below that, so the age stops there.
Later(age) ==
    IF age + LOOP_DELAY_MS >= RAMP_DURATION_MS THEN RAMP_DURATION_MS
    ELSE age + LOOP_DELAY_MS

\* ramp_start_ms is read only at 586, after 584 has read ramp_forward_active
\* true, and 366 writes it before 367 sets the flag.  While the flag is false
\* and neither context stands between those statements its value cannot reach
\* the execution; the model keeps age 0 there.
Live(m, cbpc, tkpc) == m.ramp_forward_active \/ cbpc = "L367" \/ tkpc = "L586"
Norm(m, cbpc, tkpc) == IF Live(m, cbpc, tkpc) THEN m ELSE [m EXCEPT !.ramp_age_ms = 0]

\* ------------------------------------------------------------ control loop
\* a timeout test that is off by one
TimerRunning_OffByOne(m) == m.inactivity_timer > 1

\* the test of main.c:601
TimerRunning(m) == m.inactivity_timer > 0

\* a ramp update that does not look at the flag
RampDue_Always(m) == TRUE

\* the test of main.c:584
RampDue(m) == m.ramp_forward_active

\* an interpolation that leaves out the start duty
RampPwmNow_NoFloor(elapsed) ==
    (((RAMP_END_PWM - RAMP_START_PWM) * elapsed) \div RAMP_DURATION_MS) % U16

\* an interpolation that runs from the end duty downwards
RampPwmNow_Descending(elapsed) ==
    (RAMP_END_PWM -
        ((RAMP_END_PWM - RAMP_START_PWM) * elapsed) \div RAMP_DURATION_MS) % U16

\* uint16_t pwm_now of main.c:594-595
RampPwmNow(elapsed) ==
    (RAMP_START_PWM +
        ((RAMP_END_PWM - RAMP_START_PWM) * elapsed) \div RAMP_DURATION_MS) % U16

\* a cancel that also zeroes the duties, as motor_stop does
motor_cancel_ramp_ZeroesDuty(m) ==
    [m EXCEPT !.ramp_forward_active = FALSE, !.forward_latched = FALSE,
              !.pwm_left = 0, !.pwm_right = 0]

\* motor_cancel_ramp of motor.c:152-156
motor_cancel_ramp(m) ==
    [m EXCEPT !.ramp_forward_active = FALSE, !.forward_latched = FALSE]

\* motor_update_ramp of motor.c:123-140, the motor module's form of lines
\* 584-598 of main.c, as one call; elapsed is m.ramp_age_ms
motor_update_ramp(m) ==
    IF RampDue(m)
    THEN IF m.ramp_age_ms >= RAMP_DURATION_MS
         THEN [motor_set_pwm(m, RAMP_END_PWM, RAMP_END_PWM)
                  EXCEPT !.ramp_forward_active = FALSE, !.forward_latched = TRUE]
         ELSE motor_set_pwm(m, RampPwmNow(m.ramp_age_ms), RampPwmNow(m.ramp_age_ms))
    ELSE m

\* a control loop that checks the inactivity timeout before it updates the
\* ramp
control_loop_task_CheckFirst(c) ==
    LET pc == c.l.pc
        m == c.m
    IN
    CASE pc = "L581" -> Store(c, "ramp_age_ms", Later(m.ramp_age_ms), "L601")
      [] pc = "L601" -> IF TimerRunning(m)
                        THEN [c EXCEPT !.l.pc = "L602", !.l.tmp = m.inactivity_timer]
                        ELSE Goto(c, "L603")
      [] pc = "L602" -> [c EXCEPT !.m.inactivity_timer = c.l.tmp - 1,
                                  !.l.pc = "L584", !.l.tmp = 0]
      [] pc = "L603" -> IF m.timer_active THEN Goto(c, "L604") ELSE Goto(c, "L584")
      [] pc = "L604" -> Store(c, "timer_active", FALSE, "L605")
      [] pc = "L605" -> Store(c, "ramp_forward_active", FALSE, "L606")
      [] pc = "L606" -> Store(c, "forward_latched", FALSE, "L607")
      [] pc = "L607" -> WithMem(c, motor_set_pwm(m, 0, 0), "L608")
      [] pc = "L608" -> WithMem(c, motor_set_direction(m, FALSE, FALSE), "L584")
      [] pc = "L584" -> IF RampDue(m) THEN Goto(c, "L586") ELSE Goto(c, "L581")
      [] pc = "L586" ->
            IF m.ramp_age_ms >= RAMP_DURATION_MS
            THEN Goto(c, "L589")
            ELSE [c EXCEPT !.l.pc = "L596", !.l.pwm_now = RampPwmNow(m.ramp_age_ms)]
      [] pc = "L589" -> WithMem(c, motor_set_pwm(m, RAMP_END_PWM, RAMP_END_PWM), "L590")
      [] pc = "L590" -> Store(c, "ramp_forward_active", FALSE, "L591")
      [] pc = "L591" -> Store(c, "forward_latched", TRUE, "L581")
      [] pc = "L596" -> [c EXCEPT !.m = motor_set_pwm(m, c.l.pwm_now, c.l.pwm_now),
                                  !.l.pc = "L581", !.l.pwm_now = 0]

\* one statement of control_loop_task; "L581" is the vTaskDelay that starts
\* an iteration
control_loop_task(c) ==
    LET pc == c.l.pc
        m == c.m
    IN
    CASE pc = "L581" -> Store(c, "ramp_age_ms", Later(m.ramp_age_ms), "L584")
      [] pc = "L584" -> IF RampDue(m) THEN Goto(c, "L586") ELSE Goto(c, "L601")
      [] pc = "L586" ->
            LET elapsed == m.ramp_age_ms IN
            IF elapsed >= RAMP_DURATION_MS
            THEN Goto(c, "L589")
            ELSE [c EXCEPT !.l.pc = "L596", !.l.pwm_now = RampPwmNow(elapsed)]
      [] pc = "L589" -> WithMem(c, motor_set_pwm(m, RAMP_END_PWM, RAMP_END_PWM), "L590")
      [] pc = "L590" -> Store(c, "ramp_forward_active", FALSE, "L591")
      [] pc = "L591" -> Store(c, "forward_latched", TRUE, "L601")
      [] pc = "L596" -> [c EXCEPT !.m = motor_set_pwm(m, c.l.pwm_now, c.l.pwm_now),
                                  !.l.pc = "L601", !.l.pwm_now = 0]
      \* inactivity timeout
      [] pc = "L601" -> IF TimerRunning(m)
                        THEN [c EXCEPT !.l.pc = "L602", !.l.tmp = m.inactivity_timer]
                        ELSE Goto(c, "L603")
      [] pc = "L602" -> [c EXCEPT !.m.inactivity_timer = c.l.tmp - 1,
                                  !.l.pc = "L581", !.l.tmp = 0]
      [] pc = "L603" -> IF m.timer_active THEN Goto(c, "L604") ELSE Goto(c, "L581")
      [] pc = "L604" -> Store(c, "timer_active", FALSE, "L605")
      [] pc = "L605" -> Store(c, "ramp_forward_active", FALSE, "L606")
      [] pc = "L606" -> Store(c, "forward_latched", FALSE, "L607")
      [] pc = "L607" -> WithMem(c, motor_set_pwm(m, 0, 0), "L608")
      [] pc = "L608" -> WithMem(c, motor_set_direction(m, FALSE, FALSE), "L581")

\* ------------------------------------------------------------ observers
Min(a, b) == IF a < b THEN a ELSE b

\* statements that reload the inactivity timer (inactivity_timer = INACTIVITY_TICKS)
ReloadPcs == {"L354", "L362", "L387", "L397", "L407"}
\* motor_set_pwm calls of the backward, turn and manual cases
DirectPwmPcs == {"L355", "L388", "L398", "L409"}

TickCap == INACTIVITY_TICKS + 2

\* wd observes the inactivity timeout: whether a reload has happened, the loop
\* iterations completed since the last one, the expiries (entries of the
\* branch at main.c:603) since then, whether the last iteration expired, and
\* whether its ramp update (main.c:589 or 596) wrote a duty; a handler
\* forgets the last
WdInit ==
    [reloaded |-> FALSE, ticks |-> 0, signals |-> 0, expiry_signal |-> FALSE,
     ramp_wrote |-> FALSE]

WdObserveCb(pc, w) ==
    IF pc \in ReloadPcs
    THEN [w EXCEPT !.reloaded = TRUE, !.ticks = 0, !.signals = 0, !.ramp_wrote = FALSE]
    ELSE [w EXCEPT !.ramp_wrote = FALSE]

WdObserveTk(pc, pcAfter, w) ==
    LET w1 == CASE pc = "L581" -> [w EXCEPT !.expiry_signal = FALSE,
                                            !.ramp_wrote = FALSE]
                [] pc \in {"L589", "L596"} -> [w EXCEPT !.ramp_wrote = TRUE]
                [] pc = "L604" -> [w EXCEPT !.expiry_signal = TRUE,
                                            !.signals = Min(w.signals + 1, 2)]
                [] OTHER -> w
    IN  IF pcAfter = "L581" THEN [w1 EXCEPT !.ticks = Min(w1.ticks + 1, TickCap)] ELSE w1

\* ------------------------------------------------------------ whole handlers
CbIdle == [pc |-> "idle", ev |-> "none", data |-> <<>>, ret |-> "idle"]
TkIdle == [pc |-> "L581", pwm_now |-> 0, tmp |-> 0]

CbStart(ev, data) == [pc |-> EventEntry(ev), ev |-> ev, data |-> data, ret |-> "idle"]

CbStmt(c) ==
    LET d == gatts_event_handler(c) IN [d EXCEPT !.w = WdObserveCb(c.l.pc, c.w)]

TkStmt(c) ==
    LET d == control_loop_task(c) IN [d EXCEPT !.w = WdObserveTk(c.l.pc, d.l.pc, c.w)]

RECURSIVE RunHandler(_)
RunHandler(c) == IF c.l.pc = "idle" THEN c ELSE RunHandler(CbStmt(c))

RECURSIVE RunIteration(_)
RunIteration(c) == IF c.l.pc = "L581" THEN c ELSE RunIteration(TkStmt(c))

\* the output ports show what the last action sent
Quiet(m) == [m EXCEPT !.send_arg = NoFrame, !.radio_out = NoFrame, !.log_out = NoLog]

\* which events the BLE stack can deliver in a state
CanDeliver(ev) ==
    CASE ev = "REG" -> gatts_if_global = ESP_GATT_IF_NONE
      [] ev = "CONNECT" -> advertising /\ ~device_connected
      [] ev = "DISCONNECT" -> device_connected
      [] ev = "WRITE_RX" -> device_connected
      [] ev = "WRITE_CCCD" -> device_connected

\* the stack's own part of an event: a connection ends advertising
StackEffect(ev, m) ==
    IF ev = "CONNECT" THEN [m EXCEPT !.advertising = FALSE] ELSE m

\* the handler of event ev run to completion from memory m
HandlerResult(ev, data, m, w) ==
    LET c == RunHandler([m |-> StackEffect(ev, Quiet(m)), l |-> CbStart(ev, data), w |-> w])
    IN  [m |-> Norm(c.m, "idle", "L581"), w |-> c.w]

\* one iteration of the control loop run to completion from memory m
IterationResult(m, w) ==
    LET c == RunIteration(TkStmt([m |-> Quiet(m), l |-> TkIdle, w |-> w]))
    IN  [m |-> Norm(c.m, "idle", "L581"), w |-> c.w]

\* ------------------------------------------------------------ WiFi manager
MAX_RETRY == 5
WIFI_CONNECTED_BIT == "WIFI_CONNECTED_BIT"
WIFI_FAIL_BIT == "WIFI_FAIL_BIT"

\* The statics of wifi_manager.c (s_wifi_status, s_retry_count,
\* s_initialized, the bits of s_wifi_event_group, whether s_ssid is set), the
\* station of the WiFi driver (station, and the events it has posted and not
\* yet delivered: start_pending, drop_pending), and the task that calls the
\* manager: pc is "idle" or "L196" (blocked in xEventGroupWaitBits), ret the
\* value wifi_manager_connect returned last, got_ip whether a got-IP event
\* has been handled since the call in progress began.
WifiBoot ==
    [s_wifi_status |-> "WIFI_STATUS_DISCONNECTED", s_retry_count |-> 0,
     s_initialized |-> FALSE, bits |-> {}, has_credentials |-> FALSE,
     station |-> "stopped", start_pending |-> FALSE, drop_pending |-> FALSE,
     pc |-> "idle", ret |-> "none", got_ip |-> FALSE]

\* esp_wifi_connect: a station that is started begins to associate
esp_wifi_connect(w) ==
    IF w.station = "stopped" THEN w ELSE [w EXCEPT !.station = "connecting"]

\* xEventGroupSetBits under the guard of wifi_manager.c:62 and 73
SetBits(w, bit) ==
    IF w.s_initialized THEN [w EXCEPT !.bits = @ \cup {bit}] ELSE w

\* a retry test that allows one attempt more
RetryLeft_OffByOne(w) == w.s_retry_count <= MAX_RETRY

\* the test of wifi_manager.c:56
RetryLeft(w) == w.s_retry_count < MAX_RETRY

\* wifi_event_handler, wifi_manager.c:40-78
wifi_event_handler(w, ev) ==
    CASE ev = "WIFI_EVENT_STA_START" -> esp_wifi_connect(w)
      [] ev = "WIFI_EVENT_STA_DISCONNECTED" ->
            IF RetryLeft(w)
            THEN [esp_wifi_connect(w) EXCEPT !.s_retry_count = @ + 1]
            ELSE SetBits([w EXCEPT !.s_wifi_status = "WIFI_STATUS_FAILED"], WIFI_FAIL_BIT)
      [] ev = "IP_EVENT_STA_GOT_IP" ->
            SetBits([w EXCEPT !.s_retry_count = 0,
                              !.s_wifi_status = "WIFI_STATUS_CONNECTED",
                              !.got_ip = (w.pc = "L196")],
                    WIFI_CONNECTED_BIT)

\* which events the driver can deliver, and what has happened to the station
\* when it delivers them
WifiCanDeliver(w, ev) ==
    CASE ev = "WIFI_EVENT_STA_START" -> w.start_pending
      [] ev = "WIFI_EVENT_STA_DISCONNECTED" ->
            w.drop_pending \/ w.station \in {"connecting", "connected"}
      [] ev = "IP_EVENT_STA_GOT_IP" -> w.station = "connecting"

WifiDriverEffect(w, ev) ==
    CASE ev = "WIFI_EVENT_STA_START" -> [w EXCEPT !.start_pending = FALSE]
      [] ev = "WIFI_EVENT_STA_DISCONNECTED" ->
            [w EXCEPT !.drop_pending = FALSE,
                      !.station = IF @ = "stopped" THEN @ ELSE "started"]
      [] ev = "IP_EVENT_STA_GOT_IP" -> [w EXCEPT !.station = "connected"]

\* esp_wifi_start: a stopped station starts and posts WIFI_EVENT_STA_START
esp_wifi_start(w) ==
    IF w.station = "stopped"
    THEN [w EXCEPT !.station = "started", !.start_pending = TRUE]
    ELSE w

\* wifi_manager_connect, wifi_manager.c:159-209: the part up to the wait of
\* line 196 when the caller is idle, the part from the wait on at "L196"
wifi_manager_connect(w) ==
    IF w.pc = "idle"
    THEN LET w1 == [w EXCEPT !.s_initialized = TRUE] IN
         IF ~w1.has_credentials
         THEN [w1 EXCEPT !.ret = "ESP_ERR_NOT_FOUND"]
         ELSE [esp_wifi_start([w1 EXCEPT !.s_wifi_status = "WIFI_STATUS_CONNECTING",
                                         !.s_retry_count = 0])
                  EXCEPT !.pc = "L196", !.ret = "none", !.got_ip = FALSE]
    ELSE [w EXCEPT !.pc = "idle",
                   !.ret = IF WIFI_CONNECTED_BIT \in w.bits THEN "ESP_OK"
                           ELSE IF WIFI_FAIL_BIT \in w.bits THEN "ESP_FAIL"
                           ELSE "ESP_ERR_TIMEOUT"]

\* wifi_manager_disconnect, wifi_manager.c:211-219: a station that was
\* associating or associated posts WIFI_EVENT_STA_DISCONNECTED
wifi_manager_disconnect(w) ==
    [w EXCEPT !.drop_pending = @ \/ w.station \in {"connecting", "connected"},
              !.station = "stopped", !.start_pending = FALSE,
              !.s_wifi_status = "WIFI_STATUS_DISCONNECTED"]

\* ------------------------------------------------------------ OTA manager
\* tasks that call ota_manager_start_update, and how many OTA tasks FreeRTOS
\* has memory for
NumCallers == 2
MaxTasks == 2
Callers == 1..NumCallers
TaskSlots == 1..MaxTasks

\* s_ota_in_progress (ota_manager.c:18); of each calling task the position
\* in ota_manager_start_update ("idle" outside it) and the value it returned
\* last; of each task slot the position of the OTA task in it ("none" when
\* the slot is free, "run" from line 35 up to the outcome of the update)
OtaBoot ==
    [s_ota_in_progress |-> FALSE,
     caller |-> [i \in Callers |-> [pc |-> "idle", ret |-> "none"]],
     task |-> [t \in TaskSlots |-> "none"]]

OtaTasks(o) == {t \in TaskSlots : o.task[t] # "none"}

Return(o, i, ret) == [o EXCEPT !.caller[i] = [pc |-> "idle", ret |-> ret]]

\* one step of ota_manager_start_update, ota_manager.c:127-155, in calling
\* task i: the test of the flag (129), the checks of the url and of malloc
\* (134-141), the store to the flag (146), xTaskCreate (148), and the
\* store that undoes the flag when no task was created (150)
ota_manager_start_update(o, i, url_ok, malloc_ok, create_ok) ==
    LET pc == o.caller[i].pc IN
    CASE pc = "idle" -> [o EXCEPT !.caller[i] = [pc |-> "L129", ret |-> "none"]]
      [] pc = "L129" ->
            IF o.s_ota_in_progress THEN Return(o, i, "ESP_ERR_INVALID_STATE")
            ELSE [o EXCEPT !.caller[i].pc = "L134"]
      [] pc = "L134" ->
            IF ~url_ok THEN Return(o, i, "ESP_ERR_INVALID_ARG")
            ELSE IF ~malloc_ok THEN Return(o, i, "ESP_ERR_NO_MEM")
            ELSE [o EXCEPT !.caller[i].pc = "L146"]
      [] pc = "L146" -> [o EXCEPT !.s_ota_in_progress = TRUE, !.caller[i].pc = "L148"]
      [] pc = "L148" ->
            IF create_ok /\ OtaTasks(o) # TaskSlots
            THEN Return([o EXCEPT !.task[CHOOSE t \in TaskSlots : o.task[t] = "none"] = "run"],
                        i, "ESP_OK")
            ELSE [o EXCEPT !.caller[i].pc = "L150"]
      [] pc = "L150" -> Return([o EXCEPT !.s_ota_in_progress = FALSE], i, "ESP_FAIL")

\* one step of ota_task, ota_manager.c:33-114, in slot t: the update fails
\* and the task goes to cleanup (58, 87, 95, 108) or it succeeds and
\* esp_restart reboots the device (103); cleanup clears the flag (112) and
\* the task deletes itself (113)
ota_task(o, t, success) ==
    LET pc == o.task[t] IN
    CASE pc = "run" -> IF success THEN OtaBoot ELSE [o EXCEPT !.task[t] = "L112"]
      [] pc = "L112" -> [o EXCEPT !.s_ota_in_progress = FALSE, !.task[t] = "L113"]
      [] pc = "L113" -> [o EXCEPT !.task[t] = "none"]

\* ------------------------------------------------------------ initial state
\* after app_main: motor_init leaves duty 0 and the direction pins low,
\* ble_init has registered the callbacks and the control loop task waits in
\* its delay
Boot ==
    [gatts_if_global |-> ESP_GATT_IF_NONE, device_connected |-> FALSE,
     tx_notify_enabled |-> FALSE, advertising |-> FALSE,
     ramp_forward_active |-> FALSE, forward_latched |-> FALSE,
     ramp_age_ms |-> 0, inactivity_timer |-> 0, timer_active |-> FALSE,
     pwm_left |-> 0, pwm_right |-> 0, dir_left |-> FALSE, dir_right |-> FALSE,
     send_arg |-> NoFrame, radio_out |-> NoFrame, log_out |-> NoLog]

\* race observes the two contexts.  Of the last command frame: whether it
\* has been processed (frame_done), whether it set a duty that is not 0
\* (drove), the duties its backward, turn or manual case applied (applied,
\* void after an expiry or a disconnect), and the loop iterations begun and
\* completed after it (ticks_after; fresh marks an iteration begun after it).
\* Of the current overlap of the contexts: the memory when both were last at
\* rest (snap), the events and iterations begun since (n_cb, n_tk) and the
\* first such event (ev, data).  split counts the iterations that were taken
\* one statement at a time.
RaceInit ==
    [frame_done |-> FALSE, drove |-> FALSE, ticks_after |-> 0, fresh |-> FALSE,
     applied |-> <<>>,
     snap |-> <<>>, ev |-> "none", data |-> <<>>, n_cb |-> 0, n_tk |-> 0,
     split |-> 0]

\* the shared memory holds m
Holds(m) ==
    /\ gatts_if_global = m.gatts_if_global
    /\ device_connected = m.device_connected
    /\ tx_notify_enabled = m.tx_notify_enabled
    /\ advertising = m.advertising
    /\ ramp_forward_active = m.ramp_forward_active
    /\ forward_latched = m.forward_latched
    /\ ramp_age_ms = m.ramp_age_ms
    /\ inactivity_timer = m.inactivity_timer
    /\ timer_active = m.timer_active
    /\ pwm_left = m.pwm_left
    /\ pwm_right = m.pwm_right
    /\ dir_left = m.dir_left
    /\ dir_right = m.dir_right
    /\ send_arg = m.send_arg
    /\ radio_out = m.radio_out
    /\ log_out = m.log_out

Init ==
    /\ Holds(Boot)
    /\ cb = CbIdle
    /\ tk = TkIdle
    /\ wd = WdInit
    /\ race = RaceInit
    /\ n_events = 0
    /\ wifi = WifiBoot
    /\ ota = OtaBoot

\* ------------------------------------------------------------ atomic actions
Handle(ev, data) ==
    /\ CanDeliver(ev)
    /\ \E r \in {HandlerResult(ev, data, Cur, wd)} : Apply(r.m) /\ wd' = r.w
    /\ UNCHANGED <<cb, tk, race, n_events, wifi, ota>>

RegEvt == Handle("REG", <<>>)
ConnectEvt == Handle("CONNECT", <<>>)
DisconnectEvt == Handle("DISCONNECT", <<>>)
WriteRxEvt == \E f \in Frames : Handle("WRITE_RX", f)
WriteCccdEvt == \E v \in CccdWrites : Handle("WRITE_CCCD", v)

Tick ==
    /\ \E r \in {IterationResult(Cur, wd)} : Apply(r.m) /\ wd' = r.w
    /\ UNCHANGED <<cb, tk, race, n_events, wifi, ota>>

Next ==
    \/ RegEvt
    \/ ConnectEvt
    \/ DisconnectEvt
    \/ WriteRxEvt
    \/ WriteCccdEvt
    \/ Tick

Spec == Init /\ [][Next]_vars


\* ------------------------------------------------------------ interleaving
\* GATT events dispatched in a behaviour of SpecInterleaved
MaxCallbacks == 1
\* iterations of the control loop taken one statement at a time in a
\* behaviour of SpecInterleaved; the others run between two statements of
\* the handler
MaxSplitIterations == 1

Quiescent == cb.pc = "idle" /\ tk.pc = "L581"

\* an overlap in which a second event or iteration begins is not observed
Window(r) ==
    IF r.n_cb > 1 \/ r.n_tk > 1
    THEN [r EXCEPT !.snap = <<>>, !.ev = "none", !.data = <<>>, !.n_cb = 2, !.n_tk = 2]
    ELSE r

RaceBegin(ev, data) ==
    LET r1 == IF Quiescent
              THEN [race EXCEPT !.snap = <<Cur>>, !.n_cb = 1, !.n_tk = 0,
                                !.ev = ev, !.data = data]
              ELSE IF race.n_cb = 0
                   THEN [race EXCEPT !.n_cb = 1, !.ev = ev, !.data = data]
                   ELSE [race EXCEPT !.n_cb = 2]
        r2 == CASE ev = "WRITE_RX" ->
                     [r1 EXCEPT !.frame_done = FALSE, !.drove = FALSE,
                                !.ticks_after = 0, !.fresh = FALSE, !.applied = <<>>]
                [] ev = "DISCONNECT" ->
                     [r1 EXCEPT !.drove = FALSE, !.ticks_after = 0, !.applied = <<>>]
                [] OTHER -> r1
    IN  Window(r2)

\* statement pc of the callback has led to configuration d
RaceObserveCb(pc, d) ==
    CASE pc \in DirectPwmPcs ->
           [race EXCEPT !.applied = <<d.m.pwm_left, d.m.pwm_right>>,
                        !.drove = (d.m.pwm_left # 0 \/ d.m.pwm_right # 0)]
      [] pc = "L368" -> [race EXCEPT !.drove = TRUE]
      [] pc = "L513" -> [race EXCEPT !.frame_done = TRUE, !.ticks_after = 0,
                                     !.fresh = FALSE]
      [] OTHER -> race

\* statement pc of the control loop has led to configuration d
RaceObserveTk(pc, d) ==
    LET r1 == CASE pc = "L581" ->
                     Window(IF Quiescent
                            THEN [race EXCEPT !.snap = <<Cur>>, !.n_cb = 0, !.n_tk = 1,
                                              !.ev = "none", !.data = <<>>,
                                              !.fresh = race.frame_done]
                            ELSE [race EXCEPT !.n_tk = @ + 1,
                                              !.fresh = race.frame_done])
                [] pc = "L604" -> [race EXCEPT !.applied = <<>>]
                [] OTHER -> race
    IN  IF d.l.pc = "L581"
        THEN [r1 EXCEPT !.fresh = FALSE,
                        !.ticks_after = IF r1.fresh /\ r1.drove /\ r1.frame_done
                                        THEN Min(@ + 1, TickCap) ELSE @]
        ELSE r1

\* the BLE task dispatches an event to gatts_event_handler
Begin(ev, data) ==
    /\ cb.pc = "idle"
    /\ CanDeliver(ev)
    /\ n_events < MaxCallbacks
    /\ Apply(StackEffect(ev, Quiet(Cur)))
    /\ cb' = CbStart(ev, data)
    /\ n_events' = n_events + 1
    /\ race' = RaceBegin(ev, data)
    /\ UNCHANGED <<tk, wd, wifi, ota>>

BeginReg == Begin("REG", <<>>)
BeginConnect == Begin("CONNECT", <<>>)
BeginDisconnect == Begin("DISCONNECT", <<>>)
BeginWriteRx == \E f \in Frames : Begin("WRITE_RX", f)
BeginWriteCccd == \E v \in CccdWrites : Begin("WRITE_CCCD", v)

\* the BLE task executes one statement of the handler
CbStep ==
    /\ cb.pc # "idle"
    /\ \E d \in {gatts_event_handler([m |-> Quiet(Cur), l |-> cb])} :
          /\ Apply(Norm(d.m, d.l.pc, tk.pc))
          /\ cb' = IF d.l.pc = "idle" THEN CbIdle ELSE d.l
          /\ race' = RaceObserveCb(cb.pc, d)
    /\ UNCHANGED <<tk, wd, n_events, wifi, ota>>

\* an iteration of the control loop that begins and ends between two
\* statements of the BLE task
RaceIteration(m) ==
    LET r1 == Window(IF Quiescent
                     THEN [race EXCEPT !.snap = <<Cur>>, !.n_cb = 0, !.n_tk = 1,
                                       !.ev = "none", !.data = <<>>,
                                       !.fresh = race.frame_done]
                     ELSE [race EXCEPT !.n_tk = @ + 1, !.fresh = race.frame_done])
        r2 == IF timer_active /\ ~m.timer_active THEN [r1 EXCEPT !.applied = <<>>] ELSE r1
    IN  [r2 EXCEPT !.fresh = FALSE,
                   !.ticks_after = IF r2.fresh /\ r2.drove /\ r2.frame_done
                                   THEN Min(@ + 1, TickCap) ELSE @]

WholeIteration ==
    /\ tk.pc = "L581"
    /\ \E c \in {RunIteration(TkStmt([m |-> Quiet(Cur), l |-> tk, w |-> wd]))} :
          /\ Apply(Norm(c.m, cb.pc, "L581"))
          /\ race' = RaceIteration(c.m)
    /\ UNCHANGED <<cb, tk, wd, n_events, wifi, ota>>

\* control_loop_task executes one statement
TickStep ==
    /\ tk.pc = "L581" => race.split < MaxSplitIterations
    /\ \E d \in {control_loop_task([m |-> Quiet(Cur), l |-> tk])} :
          /\ Apply(Norm(d.m, cb.pc, d.l.pc))
          /\ tk' = d.l
          /\ race' = [RaceObserveTk(tk.pc, d) EXCEPT
                          !.split = IF tk.pc = "L581" THEN @ + 1 ELSE @]
    /\ UNCHANGED <<cb, wd, n_events, wifi, ota>>

NextInterleaved ==
    \/ BeginReg
    \/ BeginConnect
    \/ BeginDisconnect
    \/ BeginWriteRx
    \/ BeginWriteCccd
    \/ CbStep
    \/ WholeIteration
    \/ TickStep

\* states of Spec.  Advertising: the application is registered.  Subscribed:
\* a client has connected and enabled notifications.  RampEnd: a forward
\* frame has just been answered, one delay before the end of the ramp it
\* keeps alive.
Advertising == [Boot EXCEPT !.gatts_if_global = GATTS_IF, !.advertising = TRUE]

Subscribed ==
    [Boot EXCEPT !.gatts_if_global = GATTS_IF, !.device_connected = TRUE,
                 !.tx_notify_enabled = TRUE]

RampEnd ==
    [Subscribed EXCEPT
                 !.ramp_forward_active = TRUE,
                 !.ramp_age_ms = RAMP_DURATION_MS - LOOP_DELAY_MS,
                 !.inactivity_timer = INACTIVITY_TICKS, !.timer_active = TRUE,
                 !.pwm_left = 254, !.pwm_right = 254,
                 !.send_arg = REPLY, !.radio_out = REPLY]

\* SpecInterleaved starts where Spec starts or in one of those states of it
StartStates == {Boot, Advertising, Subscribed, RampEnd}

InitInterleaved ==
    /\ \E m \in StartStates : Holds(m)
    /\ cb = CbIdle
    /\ tk = TkIdle
    /\ wd = WdInit
    /\ race = RaceInit
    /\ n_events = 0
    /\ wifi = WifiBoot
    /\ ota = OtaBoot

SpecInterleaved == InitInterleaved /\ [][NextInterleaved]_vars

\* ------------------------------------------------------------ keepalive
\* A client that has subscribed sends forward frames and lets fewer than
\* INACTIVITY_TICKS iterations of the control loop pass between two of them;
\* nothing else happens.  The control loop is a periodic FreeRTOS task and
\* the client keeps sending, so neither waits forever.
KeepaliveFrame == Handle("WRITE_RX", <<1>>)

KeepaliveTick ==
    /\ wd.reloaded
    /\ wd.ticks < INACTIVITY_TICKS - 1
    /\ Tick

InitKeepalive ==
    /\ Holds(Subscribed)
    /\ cb = CbIdle
    /\ tk = TkIdle
    /\ wd = WdInit
    /\ race = RaceInit
    /\ n_events = 0
    /\ wifi = WifiBoot
    /\ ota = OtaBoot

NextKeepalive ==
    \/ KeepaliveFrame
    \/ KeepaliveTick

\* the states in which a forward frame, or an iteration within the gap,
\* changes something
KeepaliveFrameDue ==
    /\ CanDeliver("WRITE_RX")
    /\ \E r \in {HandlerResult("WRITE_RX", <<1>>, Cur, wd)} : r.m # Cur \/ r.w # wd

KeepaliveTickDue ==
    /\ wd.reloaded
    /\ wd.ticks < INACTIVITY_TICKS - 1
    /\ \E r \in {IterationResult(Cur, wd)} : r.m # Cur \/ r.w # wd

\* weak fairness of the two actions, WF_vars(A), written out as
\* <>[] ENABLED <<A>>_vars => []<> <<A>>_vars with the enabling conditions
\* above
KeepaliveFair ==
    /\ (<>[]KeepaliveFrameDue) => ([]<><<KeepaliveFrame>>_vars)
    /\ (<>[]KeepaliveTickDue) => ([]<><<KeepaliveTick>>_vars)

SpecKeepalive ==
    /\ InitKeepalive
    /\ [][NextKeepalive]_vars
    /\ KeepaliveFair

\* ------------------------------------------------------------ WiFi actions
WifiStep(w) ==
    /\ wifi' = w
    /\ UNCHANGED <<shared, cb, tk, wd, race, n_events, ota>>

WifiEvent(ev) ==
    /\ WifiCanDeliver(wifi, ev)
    /\ WifiStep(wifi_event_handler(WifiDriverEffect(wifi, ev), ev))

WifiStaStart == WifiEvent("WIFI_EVENT_STA_START")
WifiStaDisconnected == WifiEvent("WIFI_EVENT_STA_DISCONNECTED")
WifiGotIp == WifiEvent("IP_EVENT_STA_GOT_IP")

\* wifi_manager_set_credentials and wifi_manager_clear_credentials with NVS
\* working
WifiSetCredentials ==
    /\ wifi.pc = "idle" /\ ~wifi.has_credentials
    /\ WifiStep([wifi EXCEPT !.has_credentials = TRUE])

WifiClearCredentials ==
    /\ wifi.pc = "idle" /\ wifi.has_credentials
    /\ WifiStep([wifi EXCEPT !.has_credentials = FALSE])

WifiConnectCall == wifi.pc = "idle" /\ WifiStep(wifi_manager_connect(wifi))
WifiConnectReturn == wifi.pc = "L196" /\ WifiStep(wifi_manager_connect(wifi))
WifiDisconnectCall == wifi.pc = "idle" /\ WifiStep(wifi_manager_disconnect(wifi))

NextWifi ==
    \/ WifiSetCredentials
    \/ WifiClearCredentials
    \/ WifiConnectCall
    \/ WifiConnectReturn
    \/ WifiDisconnectCall
    \/ WifiStaStart
    \/ WifiStaDisconnected
    \/ WifiGotIp

SpecWifi == Init /\ [][NextWifi]_vars

\* ------------------------------------------------------------ OTA actions
OtaStep(o) ==
    /\ ota' = o
    /\ UNCHANGED <<shared, cb, tk, wd, race, n_events, wifi>>

\* a calling task takes its next step in ota_manager_start_update
OtaCallBy(i) ==
    \E url_ok, malloc_ok, create_ok \in BOOLEAN :
        OtaStep(ota_manager_start_update(ota, i, url_ok, malloc_ok, create_ok))

OtaCall == \E i \in Callers : OtaCallBy(i)

\* an OTA task takes its next step
OtaTaskStep ==
    \E t \in OtaTasks(ota) : \E success \in BOOLEAN :
        OtaStep(ota_task(ota, t, success))

NextOta ==
    \/ OtaCall
    \/ OtaTaskStep

SpecOta == Init /\ [][NextOta]_vars

\* ------------------------------------------------------------ properties
Stopped ==
    /\ pwm_left = 0 /\ pwm_right = 0
    /\ ~dir_left /\ ~dir_right
    /\ ~ramp_forward_active /\ ~forward_latched

MotionState ==
    <<pwm_left, pwm_right, dir_left, dir_right, ramp_forward_active,
      forward_latched, ramp_age_ms>>
WatchdogState == <<inactivity_timer, timer_active>>

\* frames whose opcode has a case in process_command
RecognizedOpcodes == {0, 1, 2, 3, 4, 5, 10, 20, 30, 40}
\* the keepalive opcode of the protocol table
KEEPALIVE == 112
\* frames whose opcode the protocol table does not list
UnknownFrames == {<<153>>, <<255>>}

\* C2: a disconnect event, whatever the state it arrives in, leaves both
\* duties 0, the direction pins low, the ramp neither active nor latched,
\* and the session disconnected with notifications off.
C2_DisconnectStops ==
    [][DisconnectEvt =>
         (/\ pwm_left' = 0 /\ pwm_right' = 0
          /\ ~dir_left' /\ ~dir_right'
          /\ ~ramp_forward_active' /\ ~forward_latched'
          /\ ~device_connected' /\ ~tx_notify_enabled')]_vars

\* a disconnect has stopped a backward, turn or manual command that had just
\* reloaded the timer: only a disconnect zeroes the duties without a tick
C2_Witness ==
    /\ ~device_connected /\ advertising
    /\ timer_active /\ inactivity_timer = INACTIVITY_TICKS
    /\ Stopped

\* C3: after a reload of the inactivity timer and with no further reload, the
\* first INACTIVITY_TICKS iterations of the control loop do not expire, the
\* next one expires (once: it disarms the timer and stops the motors), and
\* no later iteration expires.
C3_WatchdogEdge ==
    wd.reloaded =>
        /\ wd.ticks <= INACTIVITY_TICKS =>
              /\ wd.signals = 0
              /\ wd.ticks > 0 => ~wd.expiry_signal
              /\ timer_active
              /\ inactivity_timer = INACTIVITY_TICKS - wd.ticks
        /\ wd.ticks = INACTIVITY_TICKS + 1 =>
              /\ wd.expiry_signal /\ wd.signals = 1
              /\ ~timer_active
              /\ pwm_left = 0 /\ pwm_right = 0
              /\ ~ramp_forward_active /\ ~forward_latched
        /\ wd.ticks > INACTIVITY_TICKS + 1 =>
              /\ ~wd.expiry_signal /\ wd.signals = 1
              /\ ~timer_active

\* an iteration after the expiring one has run
C3_Witness ==
    /\ wd.reloaded /\ wd.ticks = INACTIVITY_TICKS + 2
    /\ wd.signals = 1 /\ ~wd.expiry_signal

\* ------------------------------------------------------------ interleaved
\* C1: under every interleaving of the handler with the control loop, once a
\* command has set a duty that is not 0 and no further frame arrives, at
\* most INACTIVITY_TICKS + 1 further iterations leave both duties 0 and the
\* ramp neither active nor latched.
C1_WatchdogUnderInterleaving ==
    (race.drove /\ race.frame_done /\ race.ticks_after >= INACTIVITY_TICKS + 1)
        => (pwm_left = 0 /\ pwm_right = 0 /\ ~ramp_forward_active /\ ~forward_latched)

\* C4: once a backward, turn or manual command has been processed, the duties
\* are the ones it applied until the next frame, expiry or disconnect, also
\* when an iteration that had read ramp_forward_active was under way.
C4_DutyNotOverwritten ==
    (race.frame_done /\ race.applied # <<>>) => <<pwm_left, pwm_right>> = race.applied

\* C5: ramp_forward_active and forward_latched are never both true, in the
\* states between two statements as well.
C5_RampingXorLatched == ~(ramp_forward_active /\ forward_latched)

SharedFields(m) ==
    <<m.ramp_forward_active, m.forward_latched, m.ramp_age_ms, m.inactivity_timer,
      m.timer_active, m.pwm_left, m.pwm_right, m.dir_left, m.dir_right,
      m.device_connected, m.tx_notify_enabled>>

\* C6: when one command frame or disconnect has overlapped one iteration of
\* the control loop, the shared variables are what one of the two serial
\* orders of the handler and the iteration leaves.
C6_Serializable ==
    (Quiescent /\ race.snap # <<>> /\ race.n_cb = 1 /\ race.n_tk = 1
               /\ race.ev \in {"WRITE_RX", "DISCONNECT"})
        => LET s == race.snap[1]
               cbFirst == IterationResult(HandlerResult(race.ev, race.data, s, wd).m, wd).m
               tkFirst == HandlerResult(race.ev, race.data, IterationResult(s, wd).m, wd).m
           IN  SharedFields(Cur) \in {SharedFields(cbFirst), SharedFields(tkFirst)}

\* C7: ble_send_data hands the frame to the radio stack exactly when the
\* session is connected with notifications enabled; otherwise the call
\* changes nothing (the frame is dropped).  Stated of the send every RX write
\* makes and of the call made in any reachable state.
SendGate(m) == m.device_connected /\ m.tx_notify_enabled

C7_SendGate ==
    /\ radio_out # NoFrame => device_connected /\ tx_notify_enabled
    /\ send_arg # NoFrame /\ ~(device_connected /\ tx_notify_enabled)
          => radio_out = NoFrame
    /\ LET m == Quiet(Cur)
           r == ble_send_data(m, REPLY)
       IN  /\ r.radio_out # NoFrame <=> SendGate(m)
           /\ ~SendGate(m) => r = [m EXCEPT !.send_arg = REPLY]

\* a send was attempted while connected with notifications off, and dropped
C7_Witness ==
    /\ send_arg = REPLY /\ radio_out = NoFrame
    /\ device_connected /\ ~tx_notify_enabled

\* C8 (as claimed): every accepted frame - motion opcodes 0x00..0x05, the
\* indicator opcodes and the keepalive - arms the inactivity timer and reloads
\* it to INACTIVITY_TICKS.
C8_EveryFrameReloads ==
    [][\A f \in Frames :
          (/\ Len(f) >= 1
           /\ f[1] \in RecognizedOpcodes \cup {KEEPALIVE}
           /\ Handle("WRITE_RX", f))
          => (timer_active' /\ inactivity_timer' = INACTIVITY_TICKS)]_vars

\* C9: a frame with an opcode outside the protocol table leaves the duties,
\* the direction, the ramp flags, the ramp start time and the inactivity
\* timer as they were.
C9_UnknownNoEffect ==
    [][\A f \in UnknownFrames :
          Handle("WRITE_RX", f) => UNCHANGED <<MotionState, WatchdogState>>]_vars

\* an unknown opcode was processed in the middle of a ramp with the timer
\* running
C9_Witness ==
    /\ log_out = "Unknown command"
    /\ ramp_forward_active /\ ramp_age_ms > 0
    /\ timer_active /\ inactivity_timer \in 1..(INACTIVITY_TICKS - 1)

\* C10 (as claimed): a frame with an unknown opcode makes the handler pass an
\* error string to ble_send_data, one that differs from what a recognized
\* command is answered with.
C10_ErrorReply ==
    device_connected =>
        \A u \in UnknownFrames : \A k \in RecognizedOpcodes :
            LET err == HandlerResult("WRITE_RX", u, Cur, wd).m.send_arg
                ok == HandlerResult("WRITE_RX", <<k>>, Cur, wd).m.send_arg
            IN  err # NoFrame /\ err # ok


\* C11 (as claimed): a keepalive frame arms the inactivity timer and reloads
\* it to INACTIVITY_TICKS, leaves the duties, the direction and the ramp as
\* they were, and hands nothing to the radio stack.
C11_KeepaliveReloadsSilently ==
    [][Handle("WRITE_RX", <<KEEPALIVE>>)
          => (/\ timer_active' /\ inactivity_timer' = INACTIVITY_TICKS
              /\ UNCHANGED MotionState
              /\ send_arg' = NoFrame /\ radio_out' = NoFrame)]_vars

C13_DisconnectDisarms == [][DisconnectEvt => ~timer_active']_vars


\* frames whose opcode is a motion command of process_command
MotionFrames == {f \in Frames : Len(f) >= 1 /\ f[1] \in {0, 1, 3, 4, 5}}

\* both duties 0 and the ramp neither active nor latched
Halted == pwm_left = 0 /\ pwm_right = 0 /\ ~ramp_forward_active /\ ~forward_latched

\* C14: once the motors are halted, as the expiry of the inactivity timer and
\* a disconnect leave them, they stay halted over every iteration of the
\* control loop and every event, until a frame with a motion opcode (0x00,
\* 0x01, 0x03, 0x04, 0x05) is processed.
C14_HaltedUntilCommand ==
    [][(Halted /\ ~(\E f \in MotionFrames : Handle("WRITE_RX", f))) => Halted']_vars

\* the timer has expired, the control loop has run on, the client is still
\* connected and the motors are halted
C14_Witness ==
    /\ wd.signals = 1 /\ wd.ticks = TickCap
    /\ device_connected
    /\ ~timer_active /\ inactivity_timer = 0
    /\ Halted


RampFields(m) ==
    <<m.ramp_forward_active, m.forward_latched, m.ramp_age_ms, m.pwm_left, m.pwm_right>>

\* C15: a forward frame processed while the ramp is active or latched leaves
\* the ramp flags, the ramp start time and both duties as they were, and a
\* second forward frame right after a first one changes none of them;
\* motor_start_ramp called twice leaves what one call leaves.
C15_StartRampIdempotent ==
    /\ device_connected =>
          LET once == HandlerResult("WRITE_RX", <<1>>, Cur, wd).m
              twice == HandlerResult("WRITE_RX", <<1>>, once, wd).m
          IN  /\ RampFields(twice) = RampFields(once)
              /\ (ramp_forward_active \/ forward_latched)
                    => RampFields(once) = RampFields(Cur)
    /\ motor_start_ramp(motor_start_ramp(Cur)) = motor_start_ramp(Cur)
    /\ (ramp_forward_active \/ forward_latched) => motor_start_ramp(Cur) = Cur

\* a forward frame has just been processed in the middle of the ramp that an
\* earlier one started
C15_Witness ==
    /\ ramp_forward_active /\ ramp_age_ms > 0
    /\ pwm_left > RAMP_START_PWM
    /\ inactivity_timer = INACTIVITY_TICKS
    /\ send_arg = REPLY


\* C16: in every state with the ramp active both duties are
\* RAMP_START_PWM + ((RAMP_END_PWM - RAMP_START_PWM) * e) / RAMP_DURATION_MS,
\* truncated, for the time e since the ramp started; an iteration of the
\* control loop that finds e below RAMP_DURATION_MS applies that value and
\* leaves the ramp active, one that finds e at or past RAMP_DURATION_MS sets
\* both duties to RAMP_END_PWM and latches.
C16_RampInterpolation ==
    [][/\ ramp_forward_active' =>
             /\ ramp_age_ms' < RAMP_DURATION_MS
             /\ pwm_left' = RAMP_START_PWM +
                   ((RAMP_END_PWM - RAMP_START_PWM) * ramp_age_ms') \div RAMP_DURATION_MS
             /\ pwm_right' = pwm_left'
       /\ (Tick /\ ramp_forward_active /\ inactivity_timer > 0) =>
             LET e == ramp_age_ms + LOOP_DELAY_MS IN
             IF e < RAMP_DURATION_MS
             THEN /\ ramp_forward_active' /\ ~forward_latched'
                  /\ ramp_age_ms' = e
             ELSE /\ pwm_left' = RAMP_END_PWM /\ pwm_right' = RAMP_END_PWM
                  /\ forward_latched' /\ ~ramp_forward_active']_vars

\* half of the ramp has passed and the control loop has applied the duty
C16_Witness ==
    /\ ramp_forward_active
    /\ 2 * ramp_age_ms = RAMP_DURATION_MS
    /\ pwm_left = 177 /\ pwm_right = 177
    /\ send_arg = NoFrame


\* C17: in every state with forward_latched true both duties are
\* RAMP_END_PWM.
C17_LatchedAtCeiling ==
    forward_latched => (pwm_left = RAMP_END_PWM /\ pwm_right = RAMP_END_PWM)

\* a forward frame has just been answered while the ramp is latched
C17_Witness ==
    /\ forward_latched /\ ~ramp_forward_active
    /\ pwm_left = RAMP_END_PWM /\ pwm_right = RAMP_END_PWM
    /\ inactivity_timer = INACTIVITY_TICKS
    /\ send_arg = REPLY


\* C18: while the ramp is active both duties lie between RAMP_START_PWM and
\* RAMP_END_PWM, and an iteration of the control loop that leaves the ramp
\* active leaves each duty at least as high as it found it.
C18_RampBoundedMonotone ==
    [][/\ ramp_forward_active' =>
             /\ pwm_left' >= RAMP_START_PWM /\ pwm_left' <= RAMP_END_PWM
             /\ pwm_right' >= RAMP_START_PWM /\ pwm_right' <= RAMP_END_PWM
       /\ (Tick /\ ramp_forward_active /\ ramp_forward_active') =>
             (pwm_left' >= pwm_left /\ pwm_right' >= pwm_right)]_vars

\* the control loop has raised the duty of a running ramp above the one an
\* earlier iteration applied
C18_Witness ==
    /\ ramp_forward_active
    /\ ramp_age_ms >= 2 * LOOP_DELAY_MS
    /\ pwm_left > RAMP_START_PWM + 1 /\ pwm_right = pwm_left
    /\ pwm_left < RAMP_END_PWM
    /\ inactivity_timer < INACTIVITY_TICKS


\* C19 (as claimed): for every parameter byte p the manual frame <<5, p>>
\* leaves the left duty 180 - (p - 50) and the right duty 180 + (p - 50), both
\* within 0..255, both direction pins low and the ramp neither active nor
\* latched.
C19_ManualDutyInRange ==
    [][\A p \in Params :
          Handle("WRITE_RX", <<5, p>>) =>
             /\ pwm_left' = 180 - (p - 50) /\ pwm_right' = 180 + (p - 50)
             /\ pwm_left' \in 0..255 /\ pwm_right' \in 0..255
             /\ ~dir_left' /\ ~dir_right'
             /\ ~ramp_forward_active' /\ ~forward_latched']_vars


\* the fixed duty of the turn commands
TURN_PWM == 150

\* C20: from every state a right-turn frame (0x03) leaves the left duty at
\* 150 and the right duty at 255 - 150, the left direction pin high and the
\* right one low; a left-turn frame (0x04) leaves the same with the sides
\* swapped; after either the duties add up to 255 and the ramp is neither
\* active nor latched.
C20_TurnsMirror ==
    device_connected =>
        LET r == HandlerResult("WRITE_RX", <<3>>, Cur, wd).m
            l == HandlerResult("WRITE_RX", <<4>>, Cur, wd).m
        IN  /\ r.pwm_left = TURN_PWM /\ r.pwm_right = 255 - TURN_PWM
            /\ r.dir_left /\ ~r.dir_right
            /\ l.pwm_left = r.pwm_right /\ l.pwm_right = r.pwm_left
            /\ l.dir_left = r.dir_right /\ l.dir_right = r.dir_left
            /\ r.pwm_left + r.pwm_right = 255 /\ l.pwm_left + l.pwm_right = 255
            /\ ~r.ramp_forward_active /\ ~r.forward_latched
            /\ ~l.ramp_forward_active /\ ~l.forward_latched

\* a left-turn frame has just been answered
C20_Witness ==
    /\ pwm_left = 255 - TURN_PWM /\ pwm_right = TURN_PWM
    /\ ~dir_left /\ dir_right
    /\ ~ramp_forward_active /\ ~forward_latched
    /\ inactivity_timer = INACTIVITY_TICKS
    /\ send_arg = REPLY


\* C21: a forward frame processed with the ramp neither active nor latched
\* makes the ramp active, takes the current time as its start, sets both
\* duties to RAMP_START_PWM, drives both direction pins low (forward), arms
\* the inactivity timer and loads it with INACTIVITY_TICKS.
C21_ForwardStartsRamp ==
    [][(Handle("WRITE_RX", <<1>>) /\ ~ramp_forward_active /\ ~forward_latched)
          => (/\ ramp_forward_active' /\ ~forward_latched'
              /\ ramp_age_ms' = 0
              /\ pwm_left' = RAMP_START_PWM /\ pwm_right' = RAMP_START_PWM
              /\ ~dir_left' /\ ~dir_right'
              /\ timer_active' /\ inactivity_timer' = INACTIVITY_TICKS)]_vars

\* a forward frame has just started the ramp
C21_Witness ==
    /\ ramp_forward_active /\ ~forward_latched /\ ramp_age_ms = 0
    /\ pwm_left = RAMP_START_PWM /\ pwm_right = RAMP_START_PWM
    /\ ~dir_left /\ ~dir_right
    /\ timer_active /\ inactivity_timer = INACTIVITY_TICKS
    /\ device_connected /\ send_arg = REPLY

\* motor_stop called in memory m
StopResult(m) ==
    RunHandler([m |-> m, l |-> [CbIdle EXCEPT !.pc = "L254"], w |-> wd]).m

\* C22: from every state a stop frame (0x02), and motor_stop itself, leave
\* both duties 0, both direction pins low and the ramp neither active nor
\* latched.
C22_StopHalts ==
    LET halted(m) == /\ m.pwm_left = 0 /\ m.pwm_right = 0
                     /\ ~m.dir_left /\ ~m.dir_right
                     /\ ~m.ramp_forward_active /\ ~m.forward_latched
    IN  /\ halted(StopResult(Cur))
        /\ device_connected => halted(HandlerResult("WRITE_RX", <<2>>, Cur, wd).m)

\* a stop frame has just been answered while the inactivity timer of an
\* earlier motion command was running
C22_Witness ==
    /\ Stopped
    /\ device_connected /\ send_arg = REPLY
    /\ timer_active /\ inactivity_timer \in 1..(INACTIVITY_TICKS - 1)


\* C23 (as claimed): a write to the CCCD of the TX characteristic leaves
\* tx_notify_enabled true when the value written is 0x0001 and false for
\* every other value, of any length, whatever it was before.
C23_CccdSetsNotify ==
    [][\A v \in CccdWrites :
          Handle("WRITE_CCCD", v) => (tx_notify_enabled' <=> (v = <<1, 0>>))]_vars


\* the motion state and the inactivity timer held in memory m
MotionWatchdog(m) ==
    <<m.pwm_left, m.pwm_right, m.dir_left, m.dir_right, m.ramp_forward_active,
      m.forward_latched, m.ramp_age_ms, m.inactivity_timer, m.timer_active>>

\* C24: from every state and for every frame, the motion state and the
\* inactivity timer after the frame are the same with tx_notify_enabled true
\* as with it false, and a write to the CCCD changes none of them.
C24_NotifyGatesOutboundOnly ==
    device_connected =>
        /\ \A f \in Frames :
              LET on == HandlerResult("WRITE_RX", f,
                                      [Cur EXCEPT !.tx_notify_enabled = TRUE], wd).m
                  off == HandlerResult("WRITE_RX", f,
                                       [Cur EXCEPT !.tx_notify_enabled = FALSE], wd).m
              IN  MotionWatchdog(on) = MotionWatchdog(off)
        /\ \A v \in CccdWrites :
              MotionWatchdog(HandlerResult("WRITE_CCCD", v, Cur, wd).m) = MotionWatchdog(Cur)

\* a backward frame has taken effect although the client has not subscribed,
\* and its answer was not sent
C24_Witness ==
    /\ device_connected /\ ~tx_notify_enabled
    /\ send_arg = REPLY /\ radio_out = NoFrame
    /\ pwm_left = 100 /\ pwm_right = 100 /\ dir_left /\ dir_right
    /\ timer_active /\ inactivity_timer = INACTIVITY_TICKS

\* C25 (as claimed): a frame of length 0, and a manual frame <<5>> without its
\* parameter byte, change neither the motion state nor the inactivity timer.
C25_UndersizedNoEffect ==
    [][\A f \in {<<>>, <<5>>} :
          Handle("WRITE_RX", f) => UNCHANGED <<MotionState, WatchdogState>>]_vars


\* C26: every disconnect event leaves the device advertising, so that a
\* connect event can follow; once the application is registered the device is
\* never both without a client and not advertising.
C26_DisconnectReadvertises ==
    [][/\ DisconnectEvt => (advertising' /\ ~device_connected')
       /\ (gatts_if_global' # ESP_GATT_IF_NONE /\ ~device_connected') => advertising'
       /\ (advertising /\ ~device_connected) => ENABLED ConnectEvt]_vars


\* a client that had subscribed and driven the motors has disconnected: the
\* device advertises again
C26_Witness ==
    /\ gatts_if_global # ESP_GATT_IF_NONE
    /\ ~device_connected /\ ~tx_notify_enabled
    /\ advertising
    /\ Stopped
    /\ timer_active /\ inactivity_timer \in 1..(INACTIVITY_TICKS - 1)


\* C27: in every state with timer_active false an iteration of the control
\* loop leaves inactivity_timer as it is.
C27_DisarmedNotDecremented ==
    [][(Tick /\ ~timer_active) => inactivity_timer' = inactivity_timer]_vars

\* the timer has expired, the client has gone and the control loop has run
\* on with the timer disarmed
C27_Witness ==
    /\ ~timer_active /\ inactivity_timer = 0
    /\ wd.signals = 1 /\ wd.ticks = TickCap
    /\ ~device_connected /\ advertising

\* C28: with every handler and every iteration of the control loop atomic,
\* in every state in which a duty is not 0 timer_active is true.
C28_DrivenImpliesArmed == (pwm_left # 0 \/ pwm_right # 0) => timer_active

\* the motors are driven and the armed timer has run down: the next
\* iteration stops them
C28_Witness ==
    /\ pwm_left # 0 /\ pwm_right # 0
    /\ timer_active /\ inactivity_timer = 0


\* control_loop_task run from configuration c up to the inactivity check of
\* main.c:601
RECURSIVE UpToCheck(_)
UpToCheck(c) == IF c.l.pc = "L601" THEN c ELSE UpToCheck(TkStmt(c))

\* C29: in an iteration of the control loop the ramp update has run when the
\* inactivity check begins, and an iteration whose check finds the armed timer
\* at 0 ends with both duties 0, both direction pins low, the ramp neither
\* active nor latched and the timer disarmed, also when its ramp update had
\* written a duty or latched.
C29_ExpiryOverridesRamp ==
    (timer_active /\ inactivity_timer = 0) =>
        LET e == ramp_age_ms + LOOP_DELAY_MS
            mid == UpToCheck([m |-> Quiet(Cur), l |-> TkIdle, w |-> wd])
            end == RunIteration(TkStmt(mid))
        IN  /\ ramp_forward_active =>
                 /\ mid.w.ramp_wrote
                 /\ IF e < RAMP_DURATION_MS
                    THEN /\ mid.m.ramp_forward_active
                         /\ mid.m.pwm_left = RAMP_START_PWM +
                               ((RAMP_END_PWM - RAMP_START_PWM) * e) \div RAMP_DURATION_MS
                    ELSE mid.m.forward_latched /\ mid.m.pwm_left = RAMP_END_PWM
                 /\ mid.m.pwm_right = mid.m.pwm_left
           /\ mid.m.timer_active /\ mid.m.inactivity_timer = 0
           /\ end.m.pwm_left = 0 /\ end.m.pwm_right = 0
           /\ ~end.m.dir_left /\ ~end.m.dir_right
           /\ ~end.m.ramp_forward_active /\ ~end.m.forward_latched
           /\ ~end.m.timer_active
           /\ end.w.expiry_signal
           /\ Norm(end.m, "idle", "L581") = IterationResult(Cur, wd).m

\* the iteration that has just run wrote a ramp duty and then expired
C29_Witness ==
    /\ wd.ramp_wrote /\ wd.expiry_signal
    /\ Stopped
    /\ ~timer_active /\ inactivity_timer = 0


\* C30: while forward frames keep arriving with fewer than INACTIVITY_TICKS
\* iterations between two of them and nothing else happens, no frame restarts
\* the ramp (its age never goes back and the ramp is never active at or past
\* RAMP_DURATION_MS), the ramp ends latched with both duties RAMP_END_PWM, and
\* it stays so.
C30_KeepaliveLatches ==
    /\ [][ramp_forward_active =>
             \/ ramp_forward_active' /\ ramp_age_ms' >= ramp_age_ms
                                     /\ ramp_age_ms' < RAMP_DURATION_MS
             \/ forward_latched' /\ ~ramp_forward_active'
                                 /\ ramp_age_ms + LOOP_DELAY_MS >= RAMP_DURATION_MS]_vars
    /\ [][forward_latched => forward_latched']_vars
    /\ [](forward_latched => (pwm_left = RAMP_END_PWM /\ pwm_right = RAMP_END_PWM))
    /\ <>[](forward_latched /\ pwm_left = RAMP_END_PWM /\ pwm_right = RAMP_END_PWM)

\* the ramp is latched and the longest gap between two forward frames has
\* passed
C30_Witness ==
    /\ forward_latched /\ ~ramp_forward_active
    /\ pwm_left = RAMP_END_PWM /\ pwm_right = RAMP_END_PWM
    /\ wd.ticks = INACTIVITY_TICKS - 1
    /\ timer_active /\ inactivity_timer = 1


\* C31: every connect event leaves a client connected with tx_notify_enabled
\* false, whatever connect, disconnect and CCCD write events came before it.
C31_ConnectedNotifyOff ==
    [][ConnectEvt => (device_connected' /\ ~tx_notify_enabled')]_vars

\* a client is connected and has not subscribed, while the inactivity timer
\* counts down from an earlier frame
C31_Witness ==
    /\ device_connected /\ ~tx_notify_enabled /\ ~advertising
    /\ timer_active /\ inactivity_timer \in 1..(INACTIVITY_TICKS - 1)
    /\ Stopped


\* gatts_event_handler run for an RX write of frame f up to the call of
\* ble_send_data at main.c:513
RECURSIVE UpToSend(_)
UpToSend(c) == IF c.l.pc \in {"L513", "idle"} THEN c ELSE UpToSend(CbStmt(c))

\* C32: for every frame written to the RX characteristic - any opcode, known
\* or not, any length - the handler calls ble_send_data once, with REPLY: no
\* send has been made when process_command returns, the call with REPLY
\* follows, and nothing follows the call.
C32_OneDiagnosticSend ==
    device_connected =>
        \A f \in Frames :
            LET mid == UpToSend([m |-> Quiet(Cur), l |-> CbStart("WRITE_RX", f), w |-> wd])
                end == HandlerResult("WRITE_RX", f, Cur, wd)
            IN  /\ mid.l.pc = "L513"
                /\ mid.m.send_arg = NoFrame
                /\ end.m = Norm(ble_send_data(mid.m, REPLY), "idle", "L581")
                /\ end.m.send_arg = REPLY

\* the diagnostic string went out after a frame with an unknown opcode
C32_Witness ==
    /\ log_out = "Unknown command"
    /\ send_arg = REPLY /\ radio_out = REPLY
    /\ device_connected /\ tx_notify_enabled


\* duties, direction pins, ramp flags and ramp start time
RampAndDrive(m) ==
    <<m.pwm_left, m.pwm_right, m.dir_left, m.dir_right, m.ramp_forward_active,
      m.forward_latched, m.ramp_age_ms>>

\* C33: while the ramp is not active - idle or latched - the ramp update of
\* an iteration of the control loop, and motor_update_ramp, leave the duties,
\* the direction pins, the ramp flags and the ramp start time as they were.
C33_RampTickIdleNoEffect ==
    ~ramp_forward_active =>
        LET mid == UpToCheck([m |-> Quiet(Cur), l |-> TkIdle, w |-> wd])
        IN  /\ RampAndDrive(Norm(mid.m, "idle", "L601")) = RampAndDrive(Cur)
            /\ ~mid.w.ramp_wrote
            /\ motor_update_ramp(Cur) = Cur

\* the ramp is latched and iterations have run since without writing a duty
C33_Witness ==
    /\ forward_latched /\ ~ramp_forward_active
    /\ pwm_left = RAMP_END_PWM /\ pwm_right = RAMP_END_PWM
    /\ wd.ticks = 5 /\ ~wd.ramp_wrote


\* C34: from every state motor_cancel_ramp leaves the ramp neither active nor
\* latched and leaves both duties, both direction pins and the inactivity
\* timer with its flag as they were.
C34_CancelRampKeepsDuty ==
    \E r \in {motor_cancel_ramp(Cur)} :
        /\ ~r.ramp_forward_active /\ ~r.forward_latched
        /\ <<r.pwm_left, r.pwm_right, r.dir_left, r.dir_right>>
              = <<pwm_left, pwm_right, dir_left, dir_right>>
        /\ <<r.inactivity_timer, r.timer_active>> = WatchdogState

\* the ramp is under way with a duty between its ends: cancelling it here
\* changes the phase and must keep that duty
C34_Witness ==
    /\ ramp_forward_active
    /\ pwm_left \in (RAMP_START_PWM + 1)..(RAMP_END_PWM - 1) /\ pwm_right = pwm_left
    /\ timer_active
    /\ motor_cancel_ramp(Cur) # Cur


\* C35: a reverse frame (0x00), whatever the state it arrives in, leaves both
\* duties 100, both direction pins high (reverse), the ramp neither active
\* nor latched, and the inactivity timer armed at INACTIVITY_TICKS.
C35_ReverseFixedDuty ==
    [][Handle("WRITE_RX", <<0>>) =>
         (/\ pwm_left' = 100 /\ pwm_right' = 100
          /\ dir_left' /\ dir_right'
          /\ ~ramp_forward_active' /\ ~forward_latched'
          /\ timer_active' /\ inactivity_timer' = INACTIVITY_TICKS)]_vars

\* a reverse frame has just been processed and answered
C35_Witness ==
    /\ pwm_left = 100 /\ pwm_right = 100
    /\ dir_left /\ dir_right
    /\ ~ramp_forward_active /\ ~forward_latched
    /\ timer_active /\ inactivity_timer = INACTIVITY_TICKS
    /\ send_arg = REPLY /\ wd.ticks = 0


\* C36 (as claimed): whenever wifi_manager_connect returns ESP_OK, a got-IP
\* event has been handled since that call began and s_wifi_status is
\* WIFI_STATUS_CONNECTED at the return; of every call, also one made after an
\* earlier attempt has succeeded or failed and the link has gone since.
C36_ConnectOkMeansGotIp ==
    [][(WifiConnectReturn /\ wifi'.ret = "ESP_OK")
          => (wifi.got_ip /\ wifi'.s_wifi_status = "WIFI_STATUS_CONNECTED")]_vars


\* C38: s_retry_count never exceeds MAX_RETRY.  A call of
\* wifi_manager_connect that starts an attempt sets it to 0; a
\* station-disconnected event handled with the count below MAX_RETRY
\* reconnects and adds one; one handled with the count at MAX_RETRY leaves the
\* count, does not reconnect, sets WIFI_STATUS_FAILED and raises
\* WIFI_FAIL_BIT; a got-IP event sets the count to 0.
C38_RetryBounded ==
    /\ [](wifi.s_retry_count \in 0..MAX_RETRY)
    /\ [][(WifiConnectCall /\ wifi'.pc = "L196") => wifi'.s_retry_count = 0]_vars
    /\ [][WifiStaDisconnected =>
             IF wifi.s_retry_count < MAX_RETRY
             THEN /\ wifi'.s_retry_count = wifi.s_retry_count + 1
                  /\ wifi.station # "stopped" => wifi'.station = "connecting"
             ELSE /\ wifi'.s_retry_count = wifi.s_retry_count
                  /\ wifi'.station # "connecting"
                  /\ wifi'.s_wifi_status = "WIFI_STATUS_FAILED"
                  /\ WIFI_FAIL_BIT \in wifi'.bits]_vars
    /\ [][WifiGotIp => wifi'.s_retry_count = 0]_vars

\* the sixth station-disconnected event in a row has been handled
C38_Witness ==
    /\ wifi.s_retry_count = MAX_RETRY
    /\ wifi.s_wifi_status = "WIFI_STATUS_FAILED"
    /\ WIFI_FAIL_BIT \in wifi.bits
    /\ wifi.station = "started"


\* C37 (as claimed): at most one OTA task exists in any state, however the
\* calls of ota_manager_start_update and the OTA tasks interleave; a call
\* that finds s_ota_in_progress set returns ESP_ERR_INVALID_STATE and creates
\* no task; and the cleanup of an OTA task that has failed leaves
\* s_ota_in_progress false.
C37_OneOtaTask ==
    /\ [](Cardinality(OtaTasks(ota)) <= 1)
    /\ [][\A i \in Callers :
             (/\ ota.caller[i].pc = "L129" /\ ota.s_ota_in_progress
              /\ OtaCallBy(i))
             => (/\ ota'.caller[i] = [pc |-> "idle", ret |-> "ESP_ERR_INVALID_STATE"]
                 /\ ota'.task = ota.task)]_vars
    /\ [][\A t \in TaskSlots :
             (ota.task[t] = "L112" /\ ota'.task[t] = "L113")
             => ~ota'.s_ota_in_progress]_vars

====
